---- MODULE Spec2Model ----
(***************************************************************************)
(* Model of shipyard_app's AppBuilder (src/src/app_builder.rs): plugin     *)
(* registration with duplicate and cycle detection, unique (singleton)     *)
(* providers and dependencies, update_pack bookkeeping, systems, reset     *)
(* systems and the assembly performed by finish.                           *)
(*                                                                         *)
(* A plugin's build is arbitrary client code holding `&mut AppBuilder`:    *)
(* while a build is running (frames non-empty) it may call any registration*)
(* method or return.  add_plugin is therefore split at the callback:       *)
(* AddPlugin is lines 287-304 up to the entry into build, AddPluginReturn  *)
(* is lines 305-309 after build has returned.  A panic ends the process.   *)
(***************************************************************************)
EXTENDS Naturals, Sequences, FiniteSets, TLC

\* ----------------------------------------------------------------- bounds
\* Number of registration calls (returns and finish are not counted).
MaxCalls == 4

\* Number of calls one build body makes (and the client makes outside any build).
MaxChildren == 2

\* -------------------------------------------------------------- universes
Plugins == {"A", "B", "C"}
Uniques == {"U", "V"}
Components == {"T1", "T2"}
Reasons == {"r1", "r2"}
Values == {"v1", "v2"}
Systems == {<<"sys", "a">>, <<"sys", "b">>}
ExplicitResets == {<<"sys", "x">>}

DEFAULT_STAGE == "default"
UPDATE_WORKLOAD == "update"

VARIABLES
    status,          \* "open" | "finished" | "panicked"
    err,             \* kind of the panic, "none" while there is none
    msg,             \* what the panic message reports
    frames,          \* the add_plugin calls whose build is running: their plugin_type_id
    path,            \* track_current_plugin
    added,           \* track_added_plugins
    names,           \* track_type_names
    uniques,         \* track_uniques
    uniqueDeps,      \* track_unique_dependencies
    updatePacked,    \* track_update_packed
    stages,          \* stage_workloads.ordered
    resets,          \* resets
    worldUniques,    \* app.world: unique storages
    worldPacked,     \* app.world: number of update_pack() calls per storage
    worldWorkloads,  \* app.world: installed workloads
    diag,            \* tracing events emitted so far
    ret,             \* what finish returned
    built,           \* history: number of times each plugin's build was entered
    hist,            \* history: calls made so far, in order
    pre              \* history: builder and world state before the last call

vars == <<status, err, msg, frames, path, added, names, uniques, uniqueDeps, updatePacked,
          stages, resets, worldUniques, worldPacked, worldWorkloads, diag, ret,
          built, hist, pre>>

\* ------------------------------------------------------------ small helpers
Range(s) == {s[i] : i \in 1..Len(s)}

Last(s) == s[Len(s)]

Empty == <<>>

\* A HashMap is a function whose domain is the set of keys present.
Has(m, k) == k \in DOMAIN m

Insert(m, k, v) == (k :> v) @@ m

\* HashMap::entry(k).or_default().push(v)
EntryPush(m, k, v) == IF Has(m, k) THEN [m EXCEPT ![k] = Append(@, v)]
                      ELSE Insert(m, k, <<v>>)

\* The orders in which a HashMap with key set S may be iterated.
Orderings(S) == {s \in [1..Cardinality(S) -> S] :
                    \A i, j \in 1..Cardinality(S) : i # j => s[i] # s[j]}

RECURSIVE Flatten(_)
Flatten(ss) == IF ss = <<>> THEN <<>> ELSE Head(ss) \o Flatten(Tail(ss))

\* type_name::<T>()
TypeName(k) == <<"name", k>>

\* ------------------------------------------------------------------ PluginId
PathPush(p, k) == Append(p, k)

PathPop(p) == IF p = <<>> THEN p ELSE SubSeq(p, 1, Len(p) - 1)

PathContains(p, k) == k \in Range(p)

\* ----------------------------------------------------------------- Workloads
StageNames(st) == {st[i].name : i \in 1..Len(st)}

HasStage(st, name) == name \in StageNames(st)

AddStage(st, name) == Append(st, [name |-> name, systems |-> <<>>])

AddSystemToStage(st, name, system) ==
    [i \in 1..Len(st) |->
        IF st[i].name = name THEN [st[i] EXCEPT !.systems = Append(@, system)]
        ELSE st[i]]

\* --------------------------------------------------------------- shared world
StoreSingleton(w, k, v) == Insert(w, k, v)

InstallWorkload(w, name, systems) == Insert(w, name, systems)

\* -------------------------------------------------------------------- builder
tracked_type_id_of(nm, k) == IF Has(nm, k) THEN nm ELSE Insert(nm, k, TypeName(k))

reset_update_pack(T) == <<"reset_update_pack", T>>

AlreadyAdded_Never(ad, T) == FALSE

AlreadyAdded_TopLevelOnly(ad, T) == Has(ad, T) /\ Len(ad[T]) = 1

\* Line 288: T already has an entry in track_added_plugins.
AlreadyAdded(ad, T) == Has(ad, T)

WouldCycle_SelfOnly(p, T) == p # <<>> /\ p[Len(p)] = T

WouldCycle_OutermostOnly(p, T) == p # <<>> /\ p[1] = T

WouldCycle_Never(p, T) == FALSE

\* Line 295: T is on the stack of plugins being built.
WouldCycle(p, T) == PathContains(p, T)

MissingPlugin_Inverted(ad, T) == Has(ad, T)

MissingPlugin_Never(ad, T) == FALSE

\* Line 237: the plugin depended on has no entry in track_added_plugins.
MissingPlugin(ad, T) == ~Has(ad, T)

AlreadyPacked_OffByOne(up, T) == Has(up, T) /\ Len(up[T]) > 1

\* Lines 183-184: the Occupied arm of track_update_packed.entry(type_id).
AlreadyPacked(up, T) == Has(up, T)

PackEntries_SkipOccupied(up, T, e) == IF Has(up, T) THEN up ELSE Insert(up, T, <<e>>)

\* Lines 186-190: the entry recorded by either arm.
PackEntries(up, T, e) == IF Has(up, T) THEN [up EXCEPT ![T] = Append(@, e)]
                         ELSE Insert(up, T, <<e>>)

ScheduleTrackedReset_Front(rs, T) == <<reset_update_pack(T)>> \o rs

\* Line 192
ScheduleTrackedReset(rs, T) == Append(rs, reset_update_pack(T))

AddUniqueProvider_Replace(u, T, p) == Insert(u, T, <<p>>)

\* Lines 207-210
AddUniqueProvider(u, T, p) == EntryPush(u, T, p)

AddUniqueDependency_NoPath(d, T, p, reason) == EntryPush(d, T, <<Empty, reason>>)

\* Lines 223-226
AddUniqueDependency(d, T, p, reason) == EntryPush(d, T, <<p, reason>>)

NoMsg == [kind |-> "none"]

Snapshot == [path |-> path, added |-> added, names |-> names, uniques |-> uniques,
             uniqueDeps |-> uniqueDeps, updatePacked |-> updatePacked,
             stages |-> stages, resets |-> resets, worldUniques |-> worldUniques,
             worldPacked |-> worldPacked, diag |-> diag, built |-> built]

Calls == Cardinality({i \in 1..Len(hist) : hist[i].op \notin {"return", "finish"}})

CanCall == status = "open" /\ Calls < MaxCalls

Record(op, key, arg, res) ==
    /\ hist' = Append(hist, [op |-> op, key |-> key, arg |-> arg, at |-> path, res |-> res])
    /\ pre' = Snapshot

Panic(kind, m) ==
    /\ status' = "panicked"
    /\ err' = kind
    /\ msg' = m

NoPanic == UNCHANGED <<status, err, msg>>

add_default_stages_None(st) == st

\* Lines 45-47
add_default_stages(st) == AddStage(st, DEFAULT_STAGE)

Init ==
    /\ status = "open"
    /\ err = "none"
    /\ msg = NoMsg
    /\ frames = Empty
    /\ path = Empty
    /\ added = Empty
    /\ names = Empty
    /\ uniques = Empty
    /\ uniqueDeps = Empty
    /\ updatePacked = Empty
    /\ stages = add_default_stages(Empty)
    /\ resets = Empty
    /\ worldUniques = Empty
    /\ worldPacked = [c \in Components |-> 0]
    /\ worldWorkloads = Empty
    /\ diag = Empty
    /\ ret = [kind |-> "none"]
    /\ built = [p \in Plugins |-> 0]
    /\ hist = Empty
    /\ pre = Snapshot


\* ------------------------------------------------------------------- actions
\* add_plugin::<T>, from the call up to the entry into T's build.
AddPluginCall(T) ==
    /\ LET nm == tracked_type_id_of(names, T) IN
       /\ names' = nm
       /\ IF AlreadyAdded(added, T) THEN
              /\ Panic("DuplicatePlugin",
                       [kind |-> "DuplicatePlugin", current |-> path, previous |-> added[T]])
              /\ Record("add_plugin", T, "none", "DuplicatePlugin")
              /\ UNCHANGED <<frames, path, built>>
          ELSE IF WouldCycle(path, T) THEN
              /\ Panic("PluginCycle",
                       [kind |-> "PluginCycle", current |-> path,
                        plugin |-> IF Has(nm, T) THEN nm[T] ELSE ""])
              /\ Record("add_plugin", T, "none", "PluginCycle")
              /\ UNCHANGED <<frames, path, built>>
          ELSE
              /\ path' = PathPush(path, T)
              /\ frames' = Append(frames, T)
              /\ built' = [built EXCEPT ![T] = @ + 1]
              /\ Record("add_plugin", T, "none", "ok")
              /\ NoPanic
    /\ UNCHANGED <<added, uniques, uniqueDeps, updatePacked, stages, resets,
                   worldUniques, worldPacked, worldWorkloads, diag, ret>>

AddPlugin(T) == CanCall /\ AddPluginCall(T)

AddPluginReturn_PopFirst ==
    /\ status = "open"
    /\ frames # Empty
    /\ diag' = Append(diag, [level |-> "trace", event |-> "added plugin", path |-> path])
    /\ added' = Insert(added, Last(frames), PathPop(path))
    /\ path' = PathPop(path)
    /\ frames' = SubSeq(frames, 1, Len(frames) - 1)
    /\ Record("return", Last(frames), "none", "ok")
    /\ NoPanic
    /\ UNCHANGED <<names, uniques, uniqueDeps, updatePacked, stages, resets,
                   worldUniques, worldPacked, worldWorkloads, ret, built>>

AddPluginReturn_NoPop ==
    /\ status = "open"
    /\ frames # Empty
    /\ diag' = Append(diag, [level |-> "trace", event |-> "added plugin", path |-> path])
    /\ added' = Insert(added, Last(frames), path)
    /\ path' = path
    /\ frames' = SubSeq(frames, 1, Len(frames) - 1)
    /\ Record("return", Last(frames), "none", "ok")
    /\ NoPanic
    /\ UNCHANGED <<names, uniques, uniqueDeps, updatePacked, stages, resets,
                   worldUniques, worldPacked, worldWorkloads, ret, built>>

\* add_plugin, after the innermost running build has returned.
AddPluginReturn ==
    /\ status = "open"
    /\ frames # Empty
    /\ diag' = Append(diag, [level |-> "trace", event |-> "added plugin", path |-> path])
    /\ added' = Insert(added, Last(frames), path)
    /\ path' = PathPop(path)
    /\ frames' = SubSeq(frames, 1, Len(frames) - 1)
    /\ Record("return", Last(frames), "none", "ok")
    /\ NoPanic
    /\ UNCHANGED <<names, uniques, uniqueDeps, updatePacked, stages, resets,
                   worldUniques, worldPacked, worldWorkloads, ret, built>>

UpdatePack(T, reason) ==
    /\ CanCall
    /\ names' = tracked_type_id_of(names, T)
    /\ updatePacked' = PackEntries(updatePacked, T, <<path, reason>>)
    /\ IF AlreadyPacked(updatePacked, T) THEN
           UNCHANGED <<worldPacked, resets>>
       ELSE
           /\ worldPacked' = [worldPacked EXCEPT ![T] = @ + 1]
           /\ resets' = ScheduleTrackedReset(resets, T)
    /\ Record("update_pack", T, reason, "ok")
    /\ NoPanic
    /\ UNCHANGED <<frames, path, added, uniques, uniqueDeps, stages, worldUniques,
                   worldWorkloads, diag, ret, built>>

AddUnique(T, component) ==
    /\ CanCall
    /\ worldUniques' = StoreSingleton(worldUniques, T, component)
    /\ names' = tracked_type_id_of(names, T)
    /\ uniques' = AddUniqueProvider(uniques, T, path)
    /\ Record("add_unique", T, component, "ok")
    /\ NoPanic
    /\ UNCHANGED <<frames, path, added, uniqueDeps, updatePacked, stages, resets,
                   worldPacked, worldWorkloads, diag, ret, built>>

DependsOnUnique(T, reason) ==
    /\ CanCall
    /\ names' = tracked_type_id_of(names, T)
    /\ uniqueDeps' = AddUniqueDependency(uniqueDeps, T, path, reason)
    /\ Record("depends_on_unique", T, reason, "ok")
    /\ NoPanic
    /\ UNCHANGED <<frames, path, added, uniques, updatePacked, stages, resets,
                   worldUniques, worldPacked, worldWorkloads, diag, ret, built>>

DependsOnPluginCall(T, reason) ==
    /\ names' = tracked_type_id_of(names, T)
    /\ IF MissingPlugin(added, T) THEN
           /\ Panic("MissingPluginDependency",
                    [kind |-> "MissingPluginDependency", current |-> path,
                     plugin |-> TypeName(T), reason |-> reason])
           /\ Record("depends_on_plugin", T, reason, "MissingPluginDependency")
       ELSE
           /\ NoPanic
           /\ Record("depends_on_plugin", T, reason, "ok")
    /\ UNCHANGED <<frames, path, added, uniques, uniqueDeps, updatePacked, stages, resets,
                   worldUniques, worldPacked, worldWorkloads, diag, ret, built>>

DependsOnPlugin(T, reason) == CanCall /\ DependsOnPluginCall(T, reason)

AddSystem(system) ==
    /\ CanCall
    /\ IF HasStage(stages, DEFAULT_STAGE) THEN
           /\ stages' = AddSystemToStage(stages, DEFAULT_STAGE, system)
           /\ NoPanic
           /\ Record("add_system", system, "none", "ok")
       ELSE
           /\ Panic("UnknownStage", [kind |-> "UnknownStage", stage |-> DEFAULT_STAGE])
           /\ Record("add_system", system, "none", "UnknownStage")
           /\ UNCHANGED stages
    /\ UNCHANGED <<frames, path, added, names, uniques, uniqueDeps, updatePacked, resets,
                   worldUniques, worldPacked, worldWorkloads, diag, ret, built>>

AddResetSystem(system) ==
    /\ CanCall
    /\ resets' = Append(resets, system)
    /\ Record("add_reset_system", system, "none", "ok")
    /\ NoPanic
    /\ UNCHANGED <<frames, path, added, names, uniques, uniqueDeps, updatePacked, stages,
                   worldUniques, worldPacked, worldWorkloads, diag, ret, built>>

\* ---------------------------------------------------------------------- finish
\* Lines 99-111: the events logged for one unique, in the order they are logged.
UniqueEvents(T) ==
    LET depended_on_by == IF Has(uniqueDeps, T) THEN uniqueDeps[T] ELSE <<>>
        ev(level) == [level |-> level, event |-> "Unique", name |-> names[T],
                      provided_by |-> uniques[T], depended_on_by |-> depended_on_by]
    IN  IF Len(uniques[T]) > 1 THEN <<ev("warn"), ev("trace")>> ELSE <<ev("trace")>>

RemainingKeys_NothingRemoved == DOMAIN uniqueDeps

RemainingKeys_None == {}

\* Lines 114-121: the dependencies left once every provided unique is removed.
RemainingKeys == DOMAIN uniqueDeps \ DOMAIN uniques

RemainingLine_FirstOnly(T) == [name |-> names[T], required_by |-> <<uniqueDeps[T][1]>>]

\* Line 119: one line of the panic message.
RemainingLine(T) == [name |-> names[T], required_by |-> uniqueDeps[T]]

Assemble_ResetsFirst(st, rs) == rs \o Flatten([i \in 1..Len(st) |-> st[i].systems])

\* Lines 131-147: the stages' systems in stage order, then the resets.
Assemble(st, rs) == Flatten([i \in 1..Len(st) |-> st[i].systems]) \o rs

\* finish takes the builder by value, a build holds it by `&mut` only: finish
\* cannot be called while a build is running.
Finish ==
    /\ status = "open"
    /\ frames = Empty
    /\ \E uo \in Orderings(DOMAIN uniques) :
          diag' = diag \o Flatten([i \in 1..Len(uo) |-> UniqueEvents(uo[i])])
    /\ IF RemainingKeys # {} THEN
           /\ \E ro \in Orderings(RemainingKeys) :
                 Panic("UnmetUniqueDependency",
                       [kind |-> "UnmetUniqueDependency",
                        lines |-> [i \in 1..Len(ro) |-> RemainingLine(ro[i])]])
           /\ Record("finish", "none", "none", "UnmetUniqueDependency")
           /\ UNCHANGED <<worldWorkloads, ret>>
       ELSE
           /\ worldWorkloads' = InstallWorkload(worldWorkloads, UPDATE_WORKLOAD,
                                                Assemble(stages, resets))
           /\ ret' = [kind |-> "AppWorkload", name |-> UPDATE_WORKLOAD,
                      info |-> Assemble(stages, resets)]
           /\ status' = "finished"
           /\ UNCHANGED <<err, msg>>
           /\ Record("finish", "none", "none", "ok")
    /\ UNCHANGED <<frames, path, added, names, uniques, uniqueDeps, updatePacked, stages,
                   resets, worldUniques, worldPacked, built>>

\* Calls that concern plugins, and the end of the build.
PluginStep ==
    \/ \E T \in Plugins : AddPlugin(T)
    \/ AddPluginReturn
    \/ \E T \in Plugins, reason \in Reasons : DependsOnPlugin(T, reason)
    \/ Finish

\* Calls that concern uniques.
UniqueStep ==
    \/ \E T \in Uniques, component \in Values : AddUnique(T, component)
    \/ \E T \in Uniques, reason \in Reasons : DependsOnUnique(T, reason)

\* Calls that concern the workload.
WorkloadStep ==
    \/ \E T \in Components, reason \in Reasons : UpdatePack(T, reason)
    \/ \E system \in Systems : AddSystem(system)
    \/ \E system \in ExplicitResets : AddResetSystem(system)

Next == PluginStep \/ UniqueStep \/ WorkloadStep

Spec == Init /\ [][Next]_vars

\* The two specifications below restrict the client to one family of
\* registrations next to the plugin calls; the families touch disjoint fields
\* of the builder (they share the path and the name table only).
\* Clients that register plugins and uniques only.
NextUniques == PluginStep \/ UniqueStep

SpecUniques == Init /\ [][NextUniques]_vars

\* Clients that register plugins, systems, reset systems and update packs only.
NextWorkload == PluginStep \/ WorkloadStep

SpecWorkload == Init /\ [][NextWorkload]_vars

\* Clients that register plugins only.
NextPlugins == PluginStep

SpecPlugins == Init /\ [][NextPlugins]_vars

\* Build graphs: every build body is a finite list of add_plugin and
\* depends_on_plugin calls, at most MaxChildren of them, chosen freely; the
\* number of builds is not bounded by the model.
\* The calls made so far by the running build body (by the client, outside any build).
DirectCalls == Cardinality({i \in 1..Len(hist) : hist[i].op # "return" /\ hist[i].at = path})

BodyCanCall == status = "open" /\ DirectCalls < MaxChildren

AddPluginOfGraph(T) == BodyCanCall /\ AddPluginCall(T)

DependsOnPluginOfGraph(T, reason) == BodyCanCall /\ DependsOnPluginCall(T, reason)

NextGraph ==
    \/ \E T \in Plugins : AddPluginOfGraph(T)
    \/ AddPluginReturn
    \/ \E T \in Plugins, reason \in Reasons : DependsOnPluginOfGraph(T, reason)
    \/ Finish

\* add_plugin runs on the caller's thread: while a build is running, the
\* thread executes its next call or returns from it.
BuildRuns == frames # Empty /\ NextGraph

SpecGraph == Init /\ [][NextGraph]_vars /\ WF_vars(BuildRuns)

TypeOK ==
    /\ status \in {"open", "finished", "panicked"}
    /\ path \in Seq(Plugins)
    /\ DOMAIN added \subseteq Plugins
    /\ Len(stages) >= 1

\* ------------------------------------------------------- reading the history
\* The call made last, and whether one has been made.
Called == hist # <<>>

LastCall == hist[Len(hist)]

\* The plugins whose builds are running after the calls of h, outermost first.
RECURSIVE Nesting(_)
Nesting(h) ==
    IF h = <<>> THEN <<>>
    ELSE LET e == h[Len(h)]
             before == Nesting(SubSeq(h, 1, Len(h) - 1))
         IN  IF e.op = "add_plugin" /\ e.res = "ok" THEN Append(before, e.key)
             ELSE IF e.op = "return" THEN SubSeq(before, 1, Len(before) - 1)
             ELSE before

NestingBeforeLastCall == Nesting(SubSeq(hist, 1, Len(hist) - 1))

\* Position in the history at which T's build was entered / returned, 0 if never.
BuildEntered(T) ==
    LET I == {i \in 1..Len(hist) :
                 hist[i].op = "add_plugin" /\ hist[i].res = "ok" /\ hist[i].key = T}
    IN  IF I = {} THEN 0 ELSE CHOOSE i \in I : \A j \in I : i <= j

BuildReturned(T) ==
    LET I == {i \in 1..Len(hist) : hist[i].op = "return" /\ hist[i].key = T}
    IN  IF I = {} THEN 0 ELSE CHOOSE i \in I : \A j \in I : i <= j

\* ------------------------------------------------------------------------ C1
\* C1: add_plugin for a plugin type that already has an AddedPlugins entry
\* panics with DuplicatePlugin and leaves everything as it was before the call:
\* no build is entered, and Path, AddedPlugins, ProvidedBy, RequiredBy, the
\* stages and the resets are unchanged.
C1_DuplicateHasNoSideEffect ==
    (Called /\ LastCall.op = "add_plugin" /\ Has(pre.added, LastCall.key)) =>
        /\ status = "panicked"
        /\ err = "DuplicatePlugin"
        /\ built = pre.built
        /\ path = pre.path
        /\ added = pre.added
        /\ uniques = pre.uniques
        /\ uniqueDeps = pre.uniqueDeps
        /\ stages = pre.stages
        /\ resets = pre.resets

\* T was first added inside one parent and is added again inside another one.
C1_Witness ==
    /\ Called
    /\ LastCall.op = "add_plugin"
    /\ LastCall.res = "DuplicatePlugin"
    /\ Len(pre.added[LastCall.key]) = 2
    /\ Len(pre.path) = 1
    /\ pre.path[1] # pre.added[LastCall.key][1]

\* ------------------------------------------------------------------------ C2
\* C2: add_plugin panics with PluginCycle at the call whose plugin type is on
\* the stack of running builds, and at no other call; the path it reports is
\* that stack, as the calls and returns made so far determine it.
C2_CycleExactlyWhenClosed ==
    /\ (Called /\ LastCall.op = "add_plugin"
          /\ LastCall.key \in Range(NestingBeforeLastCall)) =>
            /\ status = "panicked"
            /\ err = "PluginCycle"
            /\ msg.current = NestingBeforeLastCall
            /\ msg.plugin = TypeName(LastCall.key)
            /\ path = NestingBeforeLastCall
    /\ err = "PluginCycle" =>
            /\ LastCall.op = "add_plugin"
            /\ LastCall.key \in Range(NestingBeforeLastCall)
            /\ \A i \in 1..(Len(hist) - 1) :
                  hist[i].op = "add_plugin" =>
                      hist[i].key \notin Range(Nesting(SubSeq(hist, 1, i - 1)))

\* A cycle through three plugins is closed by the innermost one.
C2_Witness ==
    /\ err = "PluginCycle"
    /\ Len(msg.current) = 3
    /\ LastCall.key = msg.current[1]

\* ------------------------------------------------------------------------ C3
\* C3 as stated: depends_on_plugin::<T> called in P's build succeeds exactly
\* when T's build returned before P's build was entered.
C3_Original ==
    (Called /\ LastCall.op = "depends_on_plugin" /\ LastCall.at # <<>>) =>
        LET T == LastCall.key
            P == Last(LastCall.at)
        IN  (LastCall.res = "ok") <=>
                (BuildReturned(T) # 0 /\ BuildReturned(T) < BuildEntered(P))

\* C3 (amended): depends_on_plugin::<T> succeeds exactly when T's build has
\* returned before the call is made, be it before or during the build of the
\* calling plugin; otherwise it panics at once with MissingPluginDependency
\* and changes nothing.
C3_DependsOnPluginAtCallTime ==
    (Called /\ LastCall.op = "depends_on_plugin") =>
        LET T == LastCall.key IN
        /\ (LastCall.res = "ok") <=> (BuildReturned(T) # 0)
        /\ (LastCall.res = "ok") => status = "open"
        /\ (LastCall.res # "ok") =>
              /\ status = "panicked"
              /\ err = "MissingPluginDependency"
              /\ msg.plugin = TypeName(T)
              /\ msg.current = LastCall.at
              /\ msg.reason = LastCall.arg
        /\ path = pre.path
        /\ added = pre.added

\* P's build adds T and then depends on it: the call succeeds although T's
\* build returned after P's build was entered.
C3_Witness ==
    /\ Called
    /\ LastCall.op = "depends_on_plugin"
    /\ LastCall.res = "ok"
    /\ LastCall.at # <<>>
    /\ BuildReturned(LastCall.key) > BuildEntered(Last(LastCall.at))

\* ------------------------------------------------------- uniques in the history
Provided(T) == \E i \in 1..Len(hist) : hist[i].op = "add_unique" /\ hist[i].key = T

Requested(T) == \E i \in 1..Len(hist) : hist[i].op = "depends_on_unique" /\ hist[i].key = T

CallsOf(op, T) == SelectSeq(hist, LAMBDA e : e.op = op /\ e.key = T)

\* The paths at which add_unique::<T> was called, in call order.
ProviderPaths(T) == [i \in 1..Len(CallsOf("add_unique", T)) |-> CallsOf("add_unique", T)[i].at]

\* The (path, reason) pairs of the depends_on_unique::<T> calls, in call order.
Requests(T) ==
    [i \in 1..Len(CallsOf("depends_on_unique", T)) |->
        <<CallsOf("depends_on_unique", T)[i].at, CallsOf("depends_on_unique", T)[i].arg>>]

LastValue(T) == Last(CallsOf("add_unique", T)).arg

Unmet == {T \in Uniques : Requested(T) /\ ~Provided(T)}

FinishCalled == Called /\ LastCall.op = "finish"

\* The events finish logged.
FinishDiag == SubSeq(diag, Len(pre.diag) + 1, Len(diag))

\* ------------------------------------------------------------------------ C4
\* C4: when some unique type was depended on and never provided, finish panics
\* with one UnmetUniqueDependency message that has one line for every such
\* type and no other line, each line carrying every (path, reason) pair
\* recorded for its type, in call order.
C4_UnmetUniqueDependenciesAllReported ==
    (FinishCalled /\ Unmet # {}) =>
        /\ status = "panicked"
        /\ err = "UnmetUniqueDependency"
        /\ Len(msg.lines) = Cardinality(Unmet)
        /\ Range(msg.lines) =
              {[name |-> TypeName(T), required_by |-> Requests(T)] : T \in Unmet}

\* Two unique types are unmet, one of them with two requests.
C4_Witness ==
    /\ FinishCalled
    /\ err = "UnmetUniqueDependency"
    /\ Len(msg.lines) = 2
    /\ \E i \in 1..2 : Len(msg.lines[i].required_by) = 2

\* ------------------------------------------------------------------------ C5
Scenario(h) == [i \in 1..Len(h) |-> <<h[i].op, h[i].key>>]

\* Spawner is A, Physics is B, Gravity is U.
GravityScenario ==
    << <<"add_plugin", "A">>, <<"depends_on_unique", "U">>, <<"add_plugin", "B">>,
       <<"add_unique", "U">>, <<"return", "B">>, <<"return", "A">>,
       <<"finish", "none">> >>

\* C5: depends_on_unique never fails when called; a unique type provided at
\* any point before finish, before or after it was depended on, is not among
\* the unmet dependencies finish reports, and finish succeeds when every type
\* depended on was provided.  When Spawner depends on Gravity and then adds
\* Physics, which provides Gravity, finish succeeds and Gravity has exactly
\* one provider entry, whose innermost plugin is Physics.
C5_UniqueDependencyOrderIndependent ==
    /\ (Called /\ LastCall.op = "depends_on_unique") =>
          (LastCall.res = "ok" /\ status = "open")
    /\ FinishCalled =>
          /\ (\A T \in Uniques : Requested(T) => Provided(T)) => status = "finished"
          /\ err = "UnmetUniqueDependency" =>
                \A T \in Uniques : \A i \in 1..Len(msg.lines) :
                    Provided(T) => msg.lines[i].name # TypeName(T)
    /\ Scenario(hist) = GravityScenario =>
          /\ status = "finished"
          /\ Len(uniques["U"]) = 1
          /\ Last(uniques["U"][1]) = "B"

C5_Witness ==
    /\ Scenario(hist) = GravityScenario
    /\ status = "finished"

\* ----------------------------------------------------------------------- C10
\* C10: add_unique never fails, also for a type that already has a provider;
\* ProvidedBy[T] is the list of the paths of all add_unique::<T> calls in call
\* order; the world holds the value of the last add_unique::<T> call; and
\* finish succeeds when every type depended on has a provider, logging a
\* warning with all providers for each type that has more than one.
C10_MultipleProvidersNonFatal ==
    /\ (Called /\ LastCall.op = "add_unique") => (LastCall.res = "ok" /\ status = "open")
    /\ \A T \in Uniques :
          IF Provided(T)
          THEN /\ Has(uniques, T) /\ uniques[T] = ProviderPaths(T)
               /\ Has(worldUniques, T) /\ worldUniques[T] = LastValue(T)
          ELSE ~Has(uniques, T) /\ ~Has(worldUniques, T)
    /\ (FinishCalled /\ Unmet = {}) =>
          /\ status = "finished"
          /\ \A T \in Uniques :
                Len(CallsOf("add_unique", T)) > 1 =>
                    \E i \in 1..Len(FinishDiag) :
                        /\ FinishDiag[i].level = "warn"
                        /\ FinishDiag[i].name = TypeName(T)
                        /\ FinishDiag[i].provided_by = ProviderPaths(T)

\* A type depended on is provided twice with different values, then finish.
C10_Witness ==
    /\ FinishCalled
    /\ status = "finished"
    /\ \E T \in Uniques :
          /\ Requested(T)
          /\ Len(CallsOf("add_unique", T)) = 2
          /\ CallsOf("add_unique", T)[1].arg # CallsOf("add_unique", T)[2].arg
          /\ CallsOf("add_unique", T)[1].at # CallsOf("add_unique", T)[2].at

\* ------------------------------------------------- the workload in the history
Finished == status = "finished"

Workload == worldWorkloads[UPDATE_WORKLOAD]

\* The systems passed to add_system, in call order.
RECURSIVE SystemCalls(_)
SystemCalls(h) ==
    IF h = <<>> THEN <<>>
    ELSE LET e == h[Len(h)]
             before == SystemCalls(SubSeq(h, 1, Len(h) - 1))
         IN  IF e.op = "add_system" /\ e.res = "ok" THEN Append(before, e.key) ELSE before

PackCalled(h, T) == \E i \in 1..Len(h) : h[i].op = "update_pack" /\ h[i].key = T

\* The reset systems in the order the calls scheduled them: an explicit one at
\* its add_reset_system call, a tracked one at the first update_pack call for
\* its storage.
RECURSIVE ResetSchedule(_)
ResetSchedule(h) ==
    IF h = <<>> THEN <<>>
    ELSE LET e == h[Len(h)]
             earlier == SubSeq(h, 1, Len(h) - 1)
             before == ResetSchedule(earlier)
         IN  IF e.op = "add_reset_system" THEN Append(before, e.key)
             ELSE IF e.op = "update_pack" /\ ~PackCalled(earlier, e.key)
                  THEN Append(before, reset_update_pack(e.key))
             ELSE before

IsTrackedReset(system) == system \in {reset_update_pack(T) : T \in Components}

IsExplicitReset(system) == system \in ExplicitResets

IsStageSystem(system) == system \in Systems

Count(seq, x) == Cardinality({i \in 1..Len(seq) : seq[i] = x})

\* The (path, reason) pairs of the update_pack::<T> calls, in call order.
PackRequests(T) ==
    [i \in 1..Len(CallsOf("update_pack", T)) |->
        <<CallsOf("update_pack", T)[i].at, CallsOf("update_pack", T)[i].arg>>]

C7_StageSystemsInRegistrationOrder ==
    /\ Flatten([i \in 1..Len(stages) |-> stages[i].systems]) = SystemCalls(hist)
    /\ Finished =>
          /\ Cardinality(DOMAIN worldWorkloads) = 1
          /\ Len(Workload) = Len(SystemCalls(hist)) + Len(resets)
          /\ SubSeq(Workload, 1, Len(SystemCalls(hist))) = SystemCalls(hist)
          /\ \A i \in 1..Len(Workload) :
                i > Len(SystemCalls(hist)) <=> ~IsStageSystem(Workload[i])
          /\ ret.name = UPDATE_WORKLOAD

\* Systems a and b are registered in this order, one of them inside a plugin's
\* build, with a reset system registered between them.
C7_Witness ==
    /\ Finished
    /\ SystemCalls(hist) = << <<"sys", "a">>, <<"sys", "b">> >>
    /\ Len(resets) > 0
    /\ \E i, j, k \in 1..Len(hist) :
          /\ i < j /\ j < k
          /\ hist[i].op = "add_system"
          /\ hist[j].op \in {"add_reset_system", "update_pack"}
          /\ hist[k].op = "add_system"
          /\ hist[i].at # hist[k].at

\* ------------------------------------------------------------------------ C8
\* C8: however often update_pack::<T> is called, T's storage is switched to
\* tracking once, at the first call, and the resets, and the workload finish
\* installs, hold one reset system for T; a storage update_pack was never
\* called for is not switched and has no reset system.
C8_PackedOncePerType ==
    \A T \in Components :
        LET n == IF PackCalled(hist, T) THEN 1 ELSE 0 IN
        /\ worldPacked[T] = n
        /\ Count(resets, reset_update_pack(T)) = n
        /\ Finished => Count(Workload, reset_update_pack(T)) = n

\* One storage is enabled twice, from different plugins and for different
\* reasons, and another storage once.
C8_Witness ==
    /\ Finished
    /\ \E T, U \in Components :
          /\ T # U
          /\ Len(CallsOf("update_pack", T)) = 2
          /\ CallsOf("update_pack", T)[1].arg # CallsOf("update_pack", T)[2].arg
          /\ CallsOf("update_pack", T)[1].at # CallsOf("update_pack", T)[2].at
          /\ Len(CallsOf("update_pack", U)) = 1

\* ------------------------------------------------------------------------ C9
\* An event that is about type T and lists reason r.
Mentions(ev, T, r) ==
    /\ ev.event = "Unique"
    /\ ev.name = TypeName(T)
    /\ \E j \in 1..Len(ev.depended_on_by) : ev.depended_on_by[j][2] = r

\* C9 as stated: every update_pack call is recorded, and after two calls for T
\* with different reasons both reasons are in the events finish logs.
C9_Original ==
    /\ \A T \in Components : PackCalled(hist, T) => updatePacked[T] = PackRequests(T)
    /\ FinishCalled =>
          \A T \in Components :
              (/\ Len(CallsOf("update_pack", T)) = 2
               /\ CallsOf("update_pack", T)[1].arg # CallsOf("update_pack", T)[2].arg) =>
                  \A c \in 1..2 : \E i \in 1..Len(FinishDiag) :
                      Mentions(FinishDiag[i], T, CallsOf("update_pack", T)[c].arg)

\* C9 (amended): every update_pack::<T> call, the first included, records its
\* (path, reason) in track_update_packed[T] in call order, so after two calls
\* with different reasons both are recorded; finish drops these records: it
\* logs one trace event per provided unique, and a warning before it for a
\* unique with several providers, and no event about T.
C9_PackRequestsRecordedNotLogged ==
    /\ \A T \in Components :
          IF PackCalled(hist, T)
          THEN Has(updatePacked, T) /\ updatePacked[T] = PackRequests(T)
          ELSE ~Has(updatePacked, T)
    /\ FinishCalled =>
          /\ Len(FinishDiag) = Cardinality({U \in Uniques : Provided(U)})
                + Cardinality({U \in Uniques : Len(CallsOf("add_unique", U)) > 1})
          /\ \A T \in Components : \A i \in 1..Len(FinishDiag) :
                FinishDiag[i].event = "Unique" /\ FinishDiag[i].name # TypeName(T)

C9_Witness ==
    /\ FinishCalled
    /\ \E T \in Components :
          /\ Has(updatePacked, T)
          /\ Len(updatePacked[T]) = 2
          /\ updatePacked[T][1][2] # updatePacked[T][2][2]
          /\ updatePacked[T][1][1] # updatePacked[T][2][1]

\* ----------------------------------------------------------------------- C11
\* The positions of the history at which T's build was entered / returned.
Entries(T) == {i \in 1..Len(hist) :
                  hist[i].op = "add_plugin" /\ hist[i].res = "ok" /\ hist[i].key = T}

Returns(T) == {i \in 1..Len(hist) : hist[i].op = "return" /\ hist[i].key = T}

\* C11: every plugin type's build is entered at most once and its AddedPlugins
\* entry is written at most once, when its build returns; an entry that was
\* there before a call is there, unchanged, after it.
C11_AddedPluginsWriteOnce ==
    \A T \in Plugins :
        /\ built[T] <= 1
        /\ Cardinality(Entries(T)) = built[T]
        /\ Cardinality(Returns(T)) <= 1
        /\ Has(added, T) <=> Returns(T) # {}
        /\ Has(pre.added, T) => (Has(added, T) /\ added[T] = pre.added[T])

\* Plugins were added at top level and nested, and one more add_plugin for a
\* type already added was refused.
C11_Witness ==
    /\ err = "DuplicatePlugin"
    /\ Cardinality(DOMAIN added) >= 2
    /\ \E T \in DOMAIN added : Len(added[T]) = 2
    /\ \E T \in DOMAIN added : Len(added[T]) = 1

\* ----------------------------------------------------------------------- C12
\* C12: the Path holds no plugin type twice.
C12_PathHasNoDuplicates ==
    \A i, j \in 1..Len(path) : i # j => path[i] # path[j]

\* Three builds are nested.
C12_Witness ==
    /\ status = "open"
    /\ Len(path) = 3

\* ----------------------------------------------------------------------- C13
\* C13: depends_on_plugin::<T> called while T's build is running, from T's
\* build or from a build nested in it, panics with MissingPluginDependency: T
\* has no AddedPlugins entry before its build has returned.  Called after T's
\* build has returned, it succeeds.
C13_AddedOnlyAfterBuildReturned ==
    /\ \A T \in Plugins : T \in Range(Nesting(hist)) => (Returns(T) = {} /\ ~Has(added, T))
    /\ (Called /\ LastCall.op = "depends_on_plugin") =>
          /\ LastCall.key \in Range(NestingBeforeLastCall) =>
                /\ LastCall.res = "MissingPluginDependency"
                /\ status = "panicked"
                /\ err = "MissingPluginDependency"
          /\ Returns(LastCall.key) # {} =>
                /\ LastCall.res = "ok"
                /\ status = "open"

\* The call is made by a plugin nested in T's build.
C13_Witness ==
    /\ Called
    /\ LastCall.op = "depends_on_plugin"
    /\ LastCall.res = "MissingPluginDependency"
    /\ Len(NestingBeforeLastCall) >= 2
    /\ LastCall.key = NestingBeforeLastCall[1]

\* ----------------------------------------------------------------------- C14
\* C14: when finish finds an unmet unique dependency it panics before the
\* workload is assembled: nothing is installed in the world and nothing is
\* returned.  A workload is installed, and returned, only by a finish that
\* found a provider for every key of RequiredBy.
C14_NoWorkloadWhenUnmet ==
    /\ (FinishCalled /\ Unmet # {}) =>
          /\ status = "panicked"
          /\ err = "UnmetUniqueDependency"
          /\ worldWorkloads = Empty
          /\ ret.kind = "none"
    /\ (worldWorkloads # Empty \/ ret.kind # "none") =>
          /\ FinishCalled
          /\ status = "finished"
          /\ Has(worldWorkloads, UPDATE_WORKLOAD)
          /\ ret.name = UPDATE_WORKLOAD
          /\ \A T \in DOMAIN uniqueDeps : Has(uniques, T) /\ Len(uniques[T]) >= 1

\* finish logged a provided unique and then panicked for another one.
C14_Witness ==
    /\ FinishCalled
    /\ err = "UnmetUniqueDependency"
    /\ Len(FinishDiag) > 0
    /\ worldWorkloads = Empty

\* ----------------------------------------------------------------------- C15
\* C15: when the build entered by add_plugin::<T> returns, AddedPlugins[T] is
\* the Path of the moment add_plugin was called with T appended, and the Path
\* is again what it was at that moment.  The Path is the stack of the running
\* builds at all times, so it is empty whenever finish runs.
C15_StackDiscipline ==
    /\ path = frames
    /\ path = Nesting(hist)
    /\ (Called /\ LastCall.op = "return") =>
          LET T == LastCall.key
              call == hist[BuildEntered(T)]
          IN  /\ Has(added, T)
              /\ added[T] = Append(call.at, T)
              /\ path = call.at
    /\ FinishCalled => (pre.path = Empty /\ path = Empty)

\* A nested build has returned into the build that added it.
C15_Witness ==
    /\ Called
    /\ LastCall.op = "return"
    /\ Len(path) = 1
    /\ Len(added[LastCall.key]) = 2
    /\ Cardinality(DOMAIN added) = 2

\* ----------------------------------------------------------------------- C16
\* C16: the entries of ProvidedBy[T] are the paths at which add_unique::<T>
\* was called and the entries of RequiredBy[T] the (path, reason) pairs of the
\* depends_on_unique::<T> calls, one entry per call, in call order; each path
\* is the stack of builds running when its call is made (empty outside any
\* build), and later pushes and pops do not change it.
C16_ProvenanceIsPathAtCall ==
    /\ (Called /\ LastCall.op \in {"add_unique", "depends_on_unique"}) =>
          LastCall.at = NestingBeforeLastCall
    /\ \A T \in Uniques :
          /\ Has(uniques, T) <=> Provided(T)
          /\ Provided(T) => uniques[T] = ProviderPaths(T)
          /\ Has(uniqueDeps, T) <=> Requested(T)
          /\ Requested(T) => uniqueDeps[T] = Requests(T)

\* A dependency declared inside a build and again, after the build returned,
\* outside any build.
C16_Witness ==
    /\ path = Empty
    /\ \E T \in DOMAIN uniqueDeps :
          /\ Len(uniqueDeps[T]) = 2
          /\ uniqueDeps[T][1][1] # Empty
          /\ uniqueDeps[T][2][1] = Empty

\* ----------------------------------------------------------------------- C17
\* The systems of the default stage.
DefaultSystems(st) == st[CHOOSE i \in 1..Len(st) : st[i].name = DEFAULT_STAGE].systems

\* C17: a new builder has the default stage, empty; stage names stay unique
\* and the default stage stays present, so add_system never panics with
\* UnknownStage and appends its system to the end of the default stage.
C17_DefaultStageAlwaysPresent ==
    /\ HasStage(stages, DEFAULT_STAGE)
    /\ Cardinality(StageNames(stages)) = Len(stages)
    /\ err # "UnknownStage"
    /\ ~Called => stages = <<[name |-> DEFAULT_STAGE, systems |-> Empty]>>
    /\ (Called /\ LastCall.op = "add_system") =>
          /\ LastCall.res = "ok"
          /\ status = "open"
          /\ DefaultSystems(stages) = Append(DefaultSystems(pre.stages), LastCall.key)

\* add_system appended to a default stage that already had a system.
C17_Witness ==
    /\ Called
    /\ LastCall.op = "add_system"
    /\ Len(DefaultSystems(stages)) = 2
    /\ DefaultSystems(stages)[1] # DefaultSystems(stages)[2]

\* ----------------------------------------------------------------------- C18
\* C18: no plugin type is on the Path and a key of AddedPlugins at once, so
\* the duplicate test and the cycle test of add_plugin are never both true
\* for a plugin type: an add_plugin that panics with DuplicatePlugin was not
\* closing a cycle, and one that panics with PluginCycle was adding a plugin
\* with no AddedPlugins entry.
C18_RunningOrAddedNeverBoth ==
    /\ Range(path) \cap DOMAIN added = {}
    /\ \A T \in Plugins : ~(AlreadyAdded(added, T) /\ WouldCycle(path, T))
    /\ (Called /\ LastCall.op = "add_plugin") =>
          /\ LastCall.res = "DuplicatePlugin" => ~WouldCycle(pre.path, LastCall.key)
          /\ LastCall.res = "PluginCycle" => ~AlreadyAdded(pre.added, LastCall.key)

\* A cycle is refused while another plugin has been added, inside its build.
C18_Witness ==
    /\ err = "PluginCycle"
    /\ Len(path) = 2
    /\ \E T \in DOMAIN added : Len(added[T]) = 2

\* ----------------------------------------------------------------------- C19
\* C19: whatever the build bodies call, a top-level add_plugin ends: the
\* running builds all return, or a call panics, and then with
\* DuplicatePlugin, PluginCycle or MissingPluginDependency; the Path is never
\* longer than the number of plugin types.
C19_AddPluginTerminates ==
    /\ [](Len(path) <= Cardinality(Plugins))
    /\ [](status = "panicked" =>
            err \in {"DuplicatePlugin", "PluginCycle", "MissingPluginDependency"})
    /\ (frames # Empty) ~> (frames = Empty \/ status = "panicked")

\* A top-level add_plugin has returned after builds nested as deeply as
\* the plugin types allow.
C19_Witness ==
    /\ status = "open"
    /\ frames = Empty
    /\ Called
    /\ LastCall.op = "return"
    /\ \E T \in DOMAIN added : Len(added[T]) = Cardinality(Plugins)

====
